---------------------------- MODULE Spec2Model ----------------------------
(***************************************************************************)
(* Triage pipeline (src/agent.py) and its decision broker: the registry    *)
(* pending_decisions and the coroutine send_triage_request of              *)
(* src/discord_bot.py, reached through DiscordManager.send_triage_request  *)
(* (src/tools/discord_tools_portia.py), and the Discord UI handlers that   *)
(* resolve a pending decision.                                             *)
(*                                                                         *)
(* Execution contexts.  The handlers and every send_triage_request         *)
(* coroutine run on the bot's event loop, so a stretch of code between two *)
(* suspension points of a coroutine is one atomic action.  A pipeline runs *)
(* either on that loop (mode "same": the coroutine is awaited directly) or *)
(* on another thread's loop (mode "cross": run_coroutine_threadsafe and a  *)
(* blocking future.result(timeout=3700)).                                  *)
(***************************************************************************)
EXTENDS Integers, Sequences, FiniteSets, TLC

\* ------------------------------------------------------- sets of the model
Procs == {"p1", "p2"}          \* concurrent calls of triage_new_issue
Issues == {101, 102}           \* issue numbers carried by the reports
Modes == {"same", "cross"}

Severities == {"Critical", "High", "Medium", "Low", "Info"}

\* what ai_manager.classify_severity / summarize_issue can do in a run
ClassifyOutcomes == {"High", "raise"}
SummarizeOutcomes == {"ai", "raise"}
\* what weaviate_manager.find_duplicate + draft_duplicate_comment can do
DuplicateOutcomes == {"none", "match", "match_then_raise", "raise"}
\* text typed into the ModifyModal severity field / text field
ModalSeverities == {"Low", "urgent"}
ModalTexts == {"edited"}

NoneInt == -1                  \* Python None in an Optional[int]/[float]
\* a match returned by find_duplicate: issue id, similarity in percent
DuplicateMatch == [id |-> 42, score |-> 91]

NoEntry == "none"              \* key absent from pending_decisions

VARIABLES
    webhook_url,        \* config.DISCORD_WEBHOOK_URL is non-empty
    botReady,           \* bot.is_ready()
    pending_decisions,  \* registry: issue -> creator of the Future stored there
    future,             \* future[p]: result of the asyncio.Future created by p's coroutine
    views,              \* issues for which a TriageView message was sent
    hres,               \* last handler that ran: its issue, its view, whether it raised
    mode,               \* mode[p]: loop the pipeline runs on
    pc,                 \* pc[p]: position of pipeline p
    co,                 \* co[p]: position of p's send_triage_request coroutine
    coret,              \* coret[p]: what that coroutine returned
    st,                 \* st[p]: the TriageState
    result,             \* result[p]: the dict returned by triage_new_issue
    calls,              \* calls[p]: RecordStore / knowledge-base calls made, in order
    phases,             \* phases[p]: phases entered, in order
    timer,              \* timer[p]: seconds elapsed for p's wait and p's view
    webhook_secret,     \* config.GITHUB_WEBHOOK_SECRET
    webhook_stats,      \* the counters of webhook_server
    req                 \* req[p]: the webhook request or direct call behind p

vars == <<webhook_url, botReady, pending_decisions, future, views, hres,
          mode, pc, co, coret, st, result, calls, phases, timer,
          webhook_secret, webhook_stats, req>>

webVars == <<webhook_secret, webhook_stats, req>>

\* ----------------------------------------------------------- data values
\* the "data" dict of a decision: a key is "absent", None or a value
EmptyData == [severity |-> "absent", summary |-> "absent",
              comment |-> "absent", modified |-> "absent"]

\* mutant: a record built from modal input keeps a kind of its own
RecordOfModalIsModify(d, data, slot) ==
    [decision |-> IF d = "approve" /\ data.modified = "True" THEN "modify" ELSE d,
     data |-> data, slot |-> slot]

\* A decision dict.  slot names the Future a handler wrote the record into
\* (by its creator), "none" for a record no handler wrote.
Record(d, data, slot) == [decision |-> d, data |-> data, slot |-> slot]

NoRecord == Record("none", EmptyData, "none")

\* {"decision": "timeout", "data": {}} built by the coroutine itself
SynthTimeout == Record("timeout", EmptyData, "none")

\* {"decision": "approve", "data": {}} returned without asking anybody
AutoApprove == Record("approve", EmptyData, "none")

NoActions == [k \in {} |-> "True"]

Put(f, k, v) == [x \in (DOMAIN f) \cup {k} |-> IF x = k THEN v ELSE f[x]]

Bool(b) == IF b THEN "True" ELSE "False"

TriageState(x) ==
    [issue_id |-> x,
     severity |-> "None",
     ai_summary |-> "None",
     is_duplicate |-> FALSE,
     similarity_score |-> NoneInt,
     duplicate_issue_id |-> NoneInt,
     proposed_comment |-> "None",
     human_decision |-> NoRecord,
     actions_executed |-> NoActions,
     completion_message_sent |-> FALSE]

NoState == TriageState(0)

\* What the caller of triage got: returned (a dict came back), raised (an
\* exception came out), and of the dict its success flag, whether it has
\* the keys issue_number and skipped, and its error.
NoResult == [returned |-> FALSE, raised |-> FALSE, success |-> FALSE,
             issue_number |-> FALSE, skipped |-> FALSE, error |-> "none"]

\* the two functions a caller enters triage through (agent.py 238-263)
Entries == {"triage_issue", "process_webhook"}

\* the issue dict handed in: well formed, or with a "repository" entry that
\* is not a dict, on which TriageState.__init__ (line 25) raises
ReportShapes == {"ok", "bad_repository"}

NoHandler == [issue |-> 0, view |-> "none", raised |-> FALSE]

\* ------------------------------------------------------------------- time
\* TriageView.__init__: super().__init__(timeout=3600.0)
UI_TIMEOUT == 3600

\* send_triage_request: timeout_duration = 3700
WAIT_WINDOW == 3700

\* seconds that pass in one step of time
Grain == 50

\* the longest the bot's loop lets a due timer wait before it runs it
MaxLatency == 50

\* wait: seconds since start_time (line 360); view: seconds since the view's
\* timeout was last refreshed; fired: on_timeout ran and the view stopped;
\* touched: an interaction with the view arrived; modal: the modal is open
NoTimer == [wait |-> 0, view |-> 0, fired |-> FALSE, touched |-> FALSE,
            modal |-> FALSE]

\* mutant: the wait gives up as soon as the view's timeout is reached
ExpiredEarly(w) == w >= UI_TIMEOUT

\* line 370: loop.time() - start_time > timeout_duration
Expired(w) == w > WAIT_WINDOW

\* the view still listens: its timeout has not stopped it
Live(v, in) == in.timed => ~timer[v].fired

\* an interaction with an item of the view refreshes the view's timeout
Refreshed(v, in) ==
    IF in.timed THEN [timer EXCEPT ![v].view = 0, ![v].touched = TRUE]
    ELSE timer

\* ------------------------------------------------ webhook_server.py: values
NoSecret == ""
Secrets == {NoSecret, "s3cret"}

\* keys a sender may sign with
SigningKeys == {"s3cret", "guess"}

\* webhook_stats as the module creates it (lines 21-26)
NoStats == [total_received |-> 0, issues_triaged |-> 0, errors |-> 0]

\* pos: where the thread of the request is; tmp: the counter value it read
\* for the += it is in; key: the counter that += is on; status: the HTTP
\* status answered; action: the action of the event; sig: the signature
\* header compared with the HMAC of the body under the configured secret
NoRequest == [pos |-> "idle", tmp |-> 0, key |-> "none", status |-> 0,
              action |-> "none", sig |-> "none"]

InitCommon ==
    /\ webhook_url \in BOOLEAN
    /\ botReady \in BOOLEAN
    /\ pending_decisions = [x \in Issues |-> NoEntry]
    /\ future = [p \in Procs |-> NoRecord]
    /\ views = {}
    /\ hres = NoHandler
    /\ mode = [p \in Procs |-> "same"]
    /\ pc = [p \in Procs |-> "idle"]
    /\ co = [p \in Procs |-> "none"]
    /\ coret = [p \in Procs |-> NoRecord]
    /\ st = [p \in Procs |-> NoState]
    /\ result = [p \in Procs |-> NoResult]
    /\ calls = [p \in Procs |-> <<>>]
    /\ phases = [p \in Procs |-> <<>>]
    /\ timer = [p \in Procs |-> NoTimer]
    /\ webhook_stats = NoStats
    /\ req = [p \in Procs |-> NoRequest]

\* no webhook secret is configured
Init ==
    /\ InitCommon
    /\ webhook_secret = NoSecret

brokerVars == <<pending_decisions, future, views, hres, co, coret>>

IssueOf(p) == st[p].issue_id

\* ------------------------------------------------ src/agent.py: the pipeline

\* the dict process_webhook returns from its except clause (lines 253-259)
WebhookFailedResult ==
    [returned |-> TRUE, raised |-> FALSE, success |-> FALSE,
     issue_number |-> FALSE, skipped |-> FALSE, error |-> "webhook"]

\* the dict process_webhook returns for an action other than "opened"
\* (lines 241-246)
SkippedResult ==
    [returned |-> TRUE, raised |-> FALSE, success |-> TRUE,
     issue_number |-> FALSE, skipped |-> TRUE, error |-> "none"]

\* an exception left triage_issue (lines 261-263 have no try)
RaisedToCaller ==
    [returned |-> FALSE, raised |-> TRUE, success |-> FALSE,
     issue_number |-> FALSE, skipped |-> FALSE, error |-> "none"]

\* A call of triage begins, on the bot's loop or on another, entered
\* through e with a report of shape r.  TriageState(issue_data) (line 63) is built before the
\* try of triage_new_issue: when it raises, the exception leaves
\* triage_new_issue and is caught only by process_webhook.
Enter(p, x, m, e, r) ==
    /\ pc[p] = "idle"
    /\ mode' = [mode EXCEPT ![p] = m]
    /\ IF r = "ok"
       THEN /\ st' = [st EXCEPT ![p] = TriageState(x)]
            /\ pc' = [pc EXCEPT ![p] = "analysis"]
            /\ UNCHANGED result
       ELSE /\ result' = [result EXCEPT ![p] =
                             IF e = "process_webhook" THEN WebhookFailedResult
                             ELSE RaisedToCaller]
            /\ pc' = [pc EXCEPT ![p] = "done"]
            /\ UNCHANGED st
    /\ UNCHANGED <<timer, webhook_url, botReady, calls, phases>>
    /\ UNCHANGED brokerVars

\* a caller of agent.py calls triage_issue or process_webhook itself
Start(p, x, m, e, r) ==
    /\ req[p] = NoRequest
    /\ Enter(p, x, m, e, r)
    /\ UNCHANGED webVars

\* mutant: each of the two values falls back on its own
AnalysisResultFallsBackSeparately(s, cls, sum) ==
    [s EXCEPT !.severity = IF cls = "raise" THEN "Medium" ELSE cls,
              !.ai_summary = IF sum = "raise" THEN "fallback" ELSE sum]

\* mutant: the except clause only fills in the summary
AnalysisResultKeepsSeverity(s, cls, sum) ==
    IF cls = "raise" \/ sum = "raise"
    THEN [s EXCEPT !.severity = IF cls = "raise" THEN "None" ELSE cls,
                   !.ai_summary = "fallback"]
    ELSE [s EXCEPT !.severity = cls, !.ai_summary = sum]

\* the two assignments of _perform_ai_analysis and its except clause;
\* "ai" is the text summarize_issue returned, "fallback" the text built at
\* line 101 from the title
AnalysisResult(s, cls, sum) ==
    IF cls = "raise" \/ sum = "raise"
    THEN [s EXCEPT !.severity = "Medium", !.ai_summary = "fallback"]
    ELSE [s EXCEPT !.severity = cls, !.ai_summary = sum]

\* phase 1
PerformAiAnalysis(p, in) ==
    /\ pc[p] = "analysis"
    /\ \E cls \in in.classify, sum \in in.summarize :
          st' = [st EXCEPT ![p] = AnalysisResult(st[p], cls, sum)]
    /\ phases' = [phases EXCEPT ![p] = Append(@, 1)]
    /\ pc' = [pc EXCEPT ![p] = "duplicate"]
    /\ UNCHANGED <<webVars, timer, webhook_url, botReady, mode, result, calls>>
    /\ UNCHANGED brokerVars

\* mutant: the except clause leaves the duplicate flag as it finds it
DuplicateResultKeepsFlag(s, out) ==
    CASE out \in {"none", "raise"} -> s
      [] out = "match" ->
            [s EXCEPT !.is_duplicate = TRUE,
                      !.similarity_score = DuplicateMatch.score,
                      !.duplicate_issue_id = DuplicateMatch.id,
                      !.proposed_comment = "draft"]
      [] out = "match_then_raise" ->
            [s EXCEPT !.is_duplicate = TRUE,
                      !.similarity_score = DuplicateMatch.score,
                      !.duplicate_issue_id = DuplicateMatch.id]

\* _perform_duplicate_detection: the match branch and the except clause
DuplicateResult(s, out) ==
    CASE out = "none" -> s
      [] out = "raise" -> [s EXCEPT !.is_duplicate = FALSE]
      [] out = "match" ->
            [s EXCEPT !.is_duplicate = TRUE,
                      !.similarity_score = DuplicateMatch.score,
                      !.duplicate_issue_id = DuplicateMatch.id,
                      !.proposed_comment = "draft"]
      [] out = "match_then_raise" ->
            [s EXCEPT !.is_duplicate = FALSE,
                      !.similarity_score = DuplicateMatch.score,
                      !.duplicate_issue_id = DuplicateMatch.id]

\* phase 2
PerformDuplicateDetection(p, in) ==
    /\ pc[p] = "duplicate"
    /\ \E out \in in.duplicate :
          st' = [st EXCEPT ![p] = DuplicateResult(st[p], out)]
    /\ phases' = [phases EXCEPT ![p] = Append(@, 2)]
    /\ pc' = [pc EXCEPT ![p] = "clarify"]
    /\ UNCHANGED <<webVars, timer, webhook_url, botReady, mode, result, calls>>
    /\ UNCHANGED brokerVars

\* the dict triage_new_issue returns from its except clause (lines 84-90)
FailedResult(err) ==
    [returned |-> TRUE, raised |-> FALSE, success |-> FALSE,
     issue_number |-> TRUE, skipped |-> FALSE, error |-> err]

\* the dict triage_new_issue returns at lines 73-83
SuccessResult ==
    [returned |-> TRUE, raised |-> FALSE, success |-> TRUE,
     issue_number |-> TRUE, skipped |-> FALSE, error |-> "none"]

\* mutant: a failure of the clarification is answered with an approval
ClarificationFailedAutoApproves(p, err) ==
    /\ st' = [st EXCEPT ![p].human_decision = AutoApprove]
    /\ pc' = [pc EXCEPT ![p] = "execute"]
    /\ UNCHANGED <<result, calls>>

\* An exception leaving send_triage_request: DiscordManager re-raises it
\* (lines 366-369), _request_human_clarification re-raises it (136-138) and
\* triage_new_issue turns it into the failed result (84-90).
ClarificationFailed(p, err) ==
    /\ result' = [result EXCEPT ![p] = FailedResult(err)]
    /\ pc' = [pc EXCEPT ![p] = "done"]
    /\ UNCHANGED <<st, calls>>

\* mutant: the notification is sent without executing the decision
ClarificationReturnedSkipsExecution(p, rec) ==
    /\ st' = [st EXCEPT ![p].human_decision = rec]
    /\ pc' = [pc EXCEPT ![p] = "notify"]
    /\ UNCHANGED <<result, calls>>

\* send_triage_request returned a record: line 134 stores it
ClarificationReturned(p, rec) ==
    /\ st' = [st EXCEPT ![p].human_decision = rec]
    /\ pc' = [pc EXCEPT ![p] = "execute"]
    /\ UNCHANGED <<result, calls>>

\* ---------------------- src/discord_bot.py: registry, coroutine and handlers

\* mutant: the finally clause leaves the entry in the registry
CleanupKeepsEntry(reg, x) == reg

\* the finally clause of send_triage_request (lines 393-396)
Cleanup(reg, x) == [reg EXCEPT ![x] = NoEntry]

\* line 356: pending_decisions[decision_key] = asyncio.Future()
Register(reg, x, p) == [reg EXCEPT ![x] = p]

\* positions of a coroutine that has not ended, and the ways it ends
InFlight == {"scheduled", "wait_ready", "sending", "waiting"}
Raised == {"raised_id", "raised_channel", "raised_send"}
Ended == Raised \cup {"returned"}

\* lines 388-396: an exception leaves the coroutine through finally
CoRaise(p, why) ==
    /\ co' = [co EXCEPT ![p] = why]
    /\ pending_decisions' = Cleanup(pending_decisions, IssueOf(p))
    /\ UNCHANGED <<future, views, coret>>

\* lines 248-258: bot.get_channel, then the awaited channel.send begins
ChannelLookup(p) ==
    \E ch \in {"found", "missing"} :
        IF ch = "found"
        THEN /\ co' = [co EXCEPT ![p] = "sending"]
             /\ UNCHANGED <<pending_decisions, future, views, coret>>
        ELSE CoRaise(p, "raised_channel")

\* lines 229-246: the coroutine starts; int(config.DISCORD_CHANNEL_ID) may
\* raise; it suspends in bot.wait_until_ready() while the bot is not ready
CoStart(p) ==
    /\ co[p] = "scheduled"
    /\ \E id \in {"int", "bad"} :
          IF id = "bad" THEN CoRaise(p, "raised_id")
          ELSE IF botReady THEN ChannelLookup(p)
          ELSE /\ co' = [co EXCEPT ![p] = "wait_ready"]
               /\ UNCHANGED <<pending_decisions, future, views, coret>>
    /\ UNCHANGED <<webVars, timer, webhook_url, botReady, hres, mode, pc, st, result,
                   calls, phases>>

\* on_ready (lines 222-226)
BotReady ==
    /\ ~botReady
    /\ botReady' = TRUE
    /\ UNCHANGED <<webVars, timer, webhook_url, pending_decisions, future, views, hres,
                   mode, pc, co, coret, st, result, calls, phases>>

\* wait_until_ready() returns
CoReady(p) ==
    /\ co[p] = "wait_ready"
    /\ botReady
    /\ ChannelLookup(p)
    /\ UNCHANGED <<webVars, timer, webhook_url, botReady, hres, mode, pc, st, result,
                   calls, phases>>

\* lines 352-377: channel.send returned; the view is live and its timeout
\* runs, the Future is stored under the issue's key, start_time is taken
\* and the first turn of the loop sleeps
CoSendOk(p, in) ==
    /\ co[p] = "sending"
    /\ views' = views \cup {p}
    /\ pending_decisions' = Register(pending_decisions, IssueOf(p), p)
    /\ co' = [co EXCEPT ![p] = "waiting"]
    /\ timer' = [timer EXCEPT ![p] = NoTimer]
    /\ UNCHANGED <<future, coret>>
    /\ UNCHANGED <<webVars, webhook_url, botReady, hres, mode, pc, st, result,
                   calls, phases>>

\* line 352 raises
CoSendFail(p) ==
    /\ co[p] = "sending"
    /\ CoRaise(p, "raised_send")
    /\ UNCHANGED <<webVars, timer, webhook_url, botReady, hres, mode, pc, st, result,
                   calls, phases>>

\* the coroutine returns rec through finally
CoReturn(p, rec) ==
    /\ co' = [co EXCEPT ![p] = "returned"]
    /\ coret' = [coret EXCEPT ![p] = rec]
    /\ pending_decisions' = Cleanup(pending_decisions, IssueOf(p))
    /\ UNCHANGED <<future, views>>

\* what the test of line 370 can give: with time kept, what the clock
\* says; otherwise either answer
Elapsed(p, in) == IF in.timed THEN {Expired(timer[p].wait)} ELSE BOOLEAN

\* One turn of the loop at lines 364-381 after the sleep.  The lookup
\* pending_decisions[decision_key] raises KeyError when the key is gone, and
\* the except clause of the loop answers with a timeout record.
\* send_completion_message (line 384) is handed message.id, fails on
\* .reply inside its own try and never suspends, so the turn that finds the
\* Future done runs to the finally clause without yielding.
CoPoll(p, in) ==
    /\ co[p] = "waiting"
    /\ LET x == IssueOf(p)
           owner == pending_decisions[x]
       IN  IF owner = NoEntry THEN CoReturn(p, SynthTimeout)
           ELSE IF future[owner].decision # "none" THEN CoReturn(p, future[owner])
           ELSE \E elapsed \in Elapsed(p, in) :
                   IF elapsed THEN CoReturn(p, SynthTimeout)
                   ELSE UNCHANGED <<pending_decisions, future, views, co, coret>>
    /\ UNCHANGED <<webVars, timer, webhook_url, botReady, hres, mode, pc, st, result,
                   calls, phases>>

\* mutant: a handler resolves every pending decision, not only its issue's
SetResultOfAnyIssue(reg, fut, x, d, data) ==
    [future |-> [q \in DOMAIN fut |->
                    IF (\E y \in DOMAIN reg : reg[y] = q) /\ fut[q].decision = "none"
                    THEN Record(d, data, q) ELSE fut[q]],
     raised |-> FALSE]

\* mutant: the handler indexes the registry without the membership test
SetResultUnchecked(reg, fut, x, d, data) ==
    IF reg[x] = NoEntry THEN [future |-> fut, raised |-> TRUE]
    ELSE IF fut[reg[x]].decision = "none"
    THEN [future |-> [fut EXCEPT ![reg[x]] = Record(d, data, reg[x])], raised |-> FALSE]
    ELSE [future |-> fut, raised |-> FALSE]

\* The body shared by the four handlers (e.g. lines 142-145): set the result
\* of the Future stored under the issue's key if there is one and it is not
\* done.  Gives the new futures and what the handler did.
SetResult(reg, fut, x, d, data) ==
    IF reg[x] # NoEntry /\ fut[reg[x]].decision = "none"
    THEN [future |-> [fut EXCEPT ![reg[x]] = Record(d, data, reg[x])], raised |-> FALSE]
    ELSE [future |-> fut, raised |-> FALSE]

\* a handler of the view sent by v runs with the record it builds
Handler(v, d, data) ==
    /\ LET x == IssueOf(v)
           r == SetResult(pending_decisions, future, x, d, data)
       IN  /\ future' = r.future
           /\ hres' = [issue |-> x, view |-> v, raised |-> r.raised]
    /\ UNCHANGED <<webVars, webhook_url, botReady, pending_decisions, views, mode, pc, co,
                   coret, st, result, calls, phases>>

\* TriageView.approve_button (lines 135-162)
ApproveButton(v, in) ==
    /\ v \in views
    /\ Live(v, in)
    /\ Handler(v, "approve", EmptyData)
    /\ timer' = Refreshed(v, in)

\* TriageView.reject_button (lines 164-191)
RejectButton(v, in) ==
    /\ v \in views
    /\ Live(v, in)
    /\ Handler(v, "reject", EmptyData)
    /\ timer' = Refreshed(v, in)

\* the dict built by ModifyModal.on_submit (lines 95-103)
ModalData(sev, text, dup) ==
    [severity |-> sev,
     summary |-> IF dup THEN "None" ELSE text,
     comment |-> IF dup THEN text ELSE "None",
     modified |-> "True"]

\* TriageView.modify_button (lines 193-202): the modal opens; nothing is
\* resolved, the interaction refreshes the view's timeout
ModifyButton(v, in) ==
    /\ v \in views
    /\ in.timed
    /\ ~timer[v].fired
    /\ timer' = [Refreshed(v, in) EXCEPT ![v].modal = TRUE]
    /\ UNCHANGED <<webVars, webhook_url, botReady, pending_decisions, future, views, hres,
                   mode, pc, co, coret, st, result, calls, phases>>

\* ModifyModal.on_submit (lines 92-121) resolves, once modify_button has
\* opened the modal
ModifySubmit(v, in) ==
    /\ v \in views
    /\ in.timed => timer[v].modal
    /\ \E sev \in in.modal, text \in ModalTexts :
          Handler(v, "approve", ModalData(sev, text, st[v].is_duplicate))
    /\ UNCHANGED timer

\* TriageView.on_timeout (lines 204-219)
\* discord.py runs it once, when the view's timeout has passed, and stops
\* the view
OnTimeout(v, in) ==
    /\ v \in views
    /\ in.timed => (~timer[v].fired /\ timer[v].view >= UI_TIMEOUT)
    /\ Handler(v, "timeout", EmptyData)
    /\ timer' = IF in.timed THEN [timer EXCEPT ![v].fired = TRUE] ELSE timer

\* Time passes for the waits and the live views of the calls that wait.  A
\* wait that has expired is noticed by the next turn of its loop (sleep(1),
\* line 377) and a view whose timeout is due gets its on_timeout run within
\* MaxLatency, before more time passes.
Tick(in) ==
    /\ in.timed
    /\ \E p \in in.procs : co[p] = "waiting"
    /\ \A p \in in.procs :
          /\ co[p] = "waiting" => ~Expired(timer[p].wait)
          /\ (p \in views /\ ~timer[p].fired) =>
                timer[p].view < UI_TIMEOUT + MaxLatency
    /\ timer' = [p \in Procs |->
                   [timer[p] EXCEPT
                      !.wait = IF co[p] = "waiting" THEN @ + Grain ELSE @,
                      !.view = IF p \in views /\ ~timer[p].fired /\ co[p] = "waiting"
                               THEN @ + Grain ELSE @]]
    /\ UNCHANGED <<webVars, webhook_url, botReady, pending_decisions, future, views, hres,
                   mode, pc, co, coret, st, result, calls, phases>>

\* --------- src/tools/discord_tools_portia.py: DiscordManager, and phases 3-5

\* what the import of discord_bot and the loop set-up can do (lines 296-343)
SetupOutcomes == {"ok", "error"}

\* phase 3 begins: _request_human_clarification (agent.py 122-134) calls
\* DiscordManager.send_triage_request (lines 288-330), which answers by
\* itself when no webhook URL is configured and otherwise starts the
\* coroutine of discord_bot on the bot's loop
RequestHumanClarification(p) ==
    /\ pc[p] = "clarify"
    /\ phases' = [phases EXCEPT ![p] = Append(@, 3)]
    /\ IF ~webhook_url
       THEN /\ ClarificationReturned(p, AutoApprove)
            /\ UNCHANGED co
       ELSE \E setup \in SetupOutcomes :
               IF setup = "error"
               THEN /\ ClarificationFailed(p, "fatal")
                    /\ UNCHANGED co
               ELSE /\ co' = [co EXCEPT ![p] = "scheduled"]
                    /\ pc' = [pc EXCEPT ![p] = "awaiting"]
                    /\ UNCHANGED <<st, result, calls>>
    /\ UNCHANGED <<webVars, timer, webhook_url, botReady, pending_decisions, future, views,
                   hres, mode, coret>>

\* the coroutine has ended: `await send_triage_request(...)` (line 330) or
\* future.result (lines 327, 339) hands its outcome to the pipeline
ManagerReceive(p) ==
    /\ pc[p] = "awaiting"
    /\ co[p] \in Ended
    /\ IF co[p] = "returned"
       THEN ClarificationReturned(p, coret[p])
       ELSE ClarificationFailed(p, "fatal")
    /\ UNCHANGED <<webVars, timer, webhook_url, botReady, mode, phases>>
    /\ UNCHANGED brokerVars

\* future.result(timeout=3700) (lines 327, 339) gives up in the calling
\* thread; the coroutine is not cancelled and goes on in the bot's loop
ManagerTimeout(p) ==
    /\ pc[p] = "awaiting"
    /\ mode[p] = "cross"
    /\ co[p] \in InFlight
    /\ ClarificationFailed(p, "fatal")
    /\ UNCHANGED <<webVars, timer, webhook_url, botReady, mode, phases>>
    /\ UNCHANGED brokerVars

\* dict.get(key, default) on the data of a decision
Get(data, key, default) == IF data[key] = "absent" THEN default ELSE data[key]

\* a call made on a collaborator; ok: the call did what it was asked to do
Call(op, arg, ok) == [op |-> op, arg |-> arg, ok |-> ok]

\* what the three calls of a branch do: whether each succeeds, and which of
\* them raises (0: none).  The managers of src/tools catch their own
\* exceptions; a raising call is the case the except clauses at lines 155-157
\* and 192-194 are written for.
ExecOutcomes == [a : BOOLEAN, b : BOOLEAN, c : BOOLEAN, raise_at : 0..3]

\* mutant: the duplicate branch gives up after a comment that was not posted
ExecuteDuplicateStopsAtFailure(s, o) ==
    LET comment == Get(s.human_decision.data, "comment", s.proposed_comment)
        c1 == Call("post_comment", comment, o.a)
        c2 == Call("add_label", "duplicate", o.b)
        c3 == Call("close_issue", "duplicate", o.c)
        a1 == Put(s.actions_executed, "comment_posted", Bool(o.a))
    IN  IF ~o.a
        THEN [calls |-> <<c1>>,
              actions |-> Put(Put(a1, "duplicate_label_added", "False"),
                              "issue_closed", "False")]
        ELSE [calls |-> <<c1, c2, c3>>,
              actions |-> Put(Put(a1, "duplicate_label_added", Bool(o.b)),
                              "issue_closed", Bool(o.c))]

\* mutant: the three keys of the duplicate branch all get the last flag
ExecuteDuplicateSharesFlag(s, o) ==
    LET comment == Get(s.human_decision.data, "comment", s.proposed_comment)
        c1 == Call("post_comment", comment, o.a)
        c2 == Call("add_label", "duplicate", o.b)
        c3 == Call("close_issue", "duplicate", o.c)
    IN  [calls |-> <<c1, c2, c3>>,
         actions |-> Put(Put(Put(s.actions_executed, "comment_posted", Bool(o.c)),
                             "duplicate_label_added", Bool(o.c)),
                         "issue_closed", Bool(o.c))]

\* agent.py lines 147-157: approve, duplicate
ExecuteDuplicate(s, o) ==
    LET comment == Get(s.human_decision.data, "comment", s.proposed_comment)
        c1 == Call("post_comment", comment, o.a /\ o.raise_at # 1)
        c2 == Call("add_label", "duplicate", o.b /\ o.raise_at # 2)
        c3 == Call("close_issue", "duplicate", o.c /\ o.raise_at # 3)
        a0 == s.actions_executed
    IN  CASE o.raise_at = 1 -> [calls |-> <<c1>>, actions |-> Put(a0, "error", "err")]
          [] o.raise_at = 2 ->
                [calls |-> <<c1, c2>>,
                 actions |-> Put(Put(a0, "comment_posted", Bool(o.a)), "error", "err")]
          [] o.raise_at = 3 ->
                [calls |-> <<c1, c2, c3>>,
                 actions |-> Put(Put(Put(a0, "comment_posted", Bool(o.a)),
                                     "duplicate_label_added", Bool(o.b)), "error", "err")]
          [] OTHER ->
                [calls |-> <<c1, c2, c3>>,
                 actions |-> Put(Put(Put(a0, "comment_posted", Bool(o.a)),
                                     "duplicate_label_added", Bool(o.b)),
                                 "issue_closed", Bool(o.c))]

\* mutant: a label that could not be added is tried a second time
ExecuteNewRetriesLabel(s, o) ==
    LET severity_label == IF s.human_decision.data["severity"] = "absent"
                          THEN s.severity ELSE s.human_decision.data["severity"]
        summary == IF s.human_decision.data["summary"] = "absent"
                   THEN s.ai_summary ELSE s.human_decision.data["summary"]
        c1 == [op |-> "add_label", arg |-> severity_label, ok |-> o.a]
        c2 == [op |-> "post_comment", arg |-> <<severity_label, summary>>, ok |-> o.b]
        c3 == [op |-> "add_issue", arg |-> "issue", ok |-> o.c]
        a3 == [k \in {"severity_label_added", "summary_posted",
                      "added_to_knowledge_base"} |->
                 CASE k = "severity_label_added" -> IF o.a THEN "True" ELSE "False"
                   [] k = "summary_posted" -> IF o.b THEN "True" ELSE "False"
                   [] OTHER -> "True"]
    IN  [calls |-> IF o.a THEN <<c1, c2, c3>> ELSE <<c1, c1, c2, c3>>,
         actions |-> a3]

\* mutant: the branch for a new issue stops at the first call that fails
ExecuteNewStopsAtFailure(s, o) ==
    LET severity_label == Get(s.human_decision.data, "severity", s.severity)
        summary == Get(s.human_decision.data, "summary", s.ai_summary)
        c1 == Call("add_label", severity_label, o.a)
        c2 == Call("post_comment", <<severity_label, summary>>, o.b)
        c3 == Call("add_issue", "issue", o.c)
        a0 == s.actions_executed
    IN  IF ~o.a
        THEN [calls |-> <<c1>>, actions |-> Put(a0, "severity_label_added", "False")]
        ELSE [calls |-> <<c1, c2, c3>>,
              actions |-> Put(Put(Put(a0, "severity_label_added", "True"),
                                  "summary_posted", Bool(o.b)),
                              "added_to_knowledge_base", "True")]

\* agent.py lines 158-194: approve, not a duplicate.  add_issue returns
\* nothing and line 190 records True whatever it did.
ExecuteNew(s, o) ==
    LET severity_label == Get(s.human_decision.data, "severity", s.severity)
        summary == Get(s.human_decision.data, "summary", s.ai_summary)
        c1 == Call("add_label", severity_label, o.a /\ o.raise_at # 1)
        c2 == Call("post_comment", <<severity_label, summary>>, o.b /\ o.raise_at # 2)
        c3 == Call("add_issue", "issue", o.c /\ o.raise_at # 3)
        a0 == s.actions_executed
    IN  CASE o.raise_at = 1 -> [calls |-> <<c1>>, actions |-> Put(a0, "error", "err")]
          [] o.raise_at = 2 ->
                [calls |-> <<c1, c2>>,
                 actions |-> Put(Put(a0, "severity_label_added", Bool(o.a)), "error", "err")]
          [] o.raise_at = 3 ->
                [calls |-> <<c1, c2, c3>>,
                 actions |-> Put(Put(Put(a0, "severity_label_added", Bool(o.a)),
                                     "summary_posted", Bool(o.b)), "error", "err")]
          [] OTHER ->
                [calls |-> <<c1, c2, c3>>,
                 actions |-> Put(Put(Put(a0, "severity_label_added", Bool(o.a)),
                                     "summary_posted", Bool(o.b)),
                                 "added_to_knowledge_base", "True")]

\* mutant: an approval that carries a severity override runs the branch for
\* a new issue, duplicate or not
ExecuteFollowsOverride(s, o) ==
    LET decision == s.human_decision.decision
    IN  CASE decision = "approve" ->
                IF s.is_duplicate /\ s.human_decision.data.severity = "absent"
                THEN ExecuteDuplicate(s, o) ELSE ExecuteNew(s, o)
          [] decision = "reject" ->
                [calls |-> <<>>, actions |-> Put(s.actions_executed, "rejected", "True")]
          [] decision = "timeout" ->
                [calls |-> <<>>, actions |-> Put(s.actions_executed, "timed_out", "True")]
          [] OTHER -> [calls |-> <<>>, actions |-> s.actions_executed]

\* mutant: a rejected plan is executed like an approved one
ExecuteRunsRejectedPlan(s, o) ==
    LET decision == s.human_decision.decision
    IN  CASE decision \in {"approve", "reject"} ->
                IF s.is_duplicate THEN ExecuteDuplicate(s, o) ELSE ExecuteNew(s, o)
          [] decision = "timeout" ->
                [calls |-> <<>>, actions |-> Put(s.actions_executed, "timed_out", "True")]
          [] OTHER -> [calls |-> <<>>, actions |-> s.actions_executed]

\* _execute_decision (agent.py lines 140-202)
Execute(s, o) ==
    LET decision == s.human_decision.decision
    IN  CASE decision = "approve" ->
                IF s.is_duplicate THEN ExecuteDuplicate(s, o) ELSE ExecuteNew(s, o)
          [] decision = "reject" ->
                [calls |-> <<>>, actions |-> Put(s.actions_executed, "rejected", "True")]
          [] decision = "timeout" ->
                [calls |-> <<>>, actions |-> Put(s.actions_executed, "timed_out", "True")]
          [] OTHER -> [calls |-> <<>>, actions |-> s.actions_executed]

\* phase 4
ExecuteDecision(p, in) ==
    /\ pc[p] = "execute"
    /\ \E o \in in.exec :
          LET e == Execute(st[p], o)
          IN  /\ st' = [st EXCEPT ![p].actions_executed = e.actions]
              /\ calls' = [calls EXCEPT ![p] = @ \o e.calls]
    /\ phases' = [phases EXCEPT ![p] = Append(@, 4)]
    /\ pc' = [pc EXCEPT ![p] = "notify"]
    /\ UNCHANGED <<webVars, timer, webhook_url, botReady, mode, result>>
    /\ UNCHANGED brokerVars

\* what the notification sink does with a completion message: it is sent,
\* the sink returns False, or the call raises
SinkOutcomes == {"ok", "failed", "raise"}

\* DiscordManager.send_completion_message (lines 507-544): False without a
\* webhook URL, else whether the POST succeeded
CompletionOutcomes(sent) == IF webhook_url THEN sent ELSE {"failed"}

\* mutant: a notification that was not sent makes the call fail
SendCompletionNotificationFailsWithSink(p, in) ==
    /\ pc[p] = "notify"
    /\ \E out \in CompletionOutcomes(in.sent) :
          /\ st' = [st EXCEPT ![p].completion_message_sent = (out = "ok")]
          /\ result' = [result EXCEPT ![p] =
                           IF out = "ok" THEN SuccessResult ELSE FailedResult("fatal")]
    /\ phases' = [phases EXCEPT ![p] = Append(@, 5)]
    /\ pc' = [pc EXCEPT ![p] = "done"]
    /\ UNCHANGED <<webVars, timer, webhook_url, botReady, mode, calls>>
    /\ UNCHANGED brokerVars

\* mutant: a recorded error turns the result into a failure
SendCompletionNotificationReportsError(p, in) ==
    /\ pc[p] = "notify"
    /\ \E out \in CompletionOutcomes(in.sent) :
          st' = [st EXCEPT ![p].completion_message_sent = (out = "ok")]
    /\ phases' = [phases EXCEPT ![p] = Append(@, 5)]
    /\ result' = [result EXCEPT ![p] =
                     IF "error" \in DOMAIN st[p].actions_executed
                     THEN FailedResult("fatal") ELSE SuccessResult]
    /\ pc' = [pc EXCEPT ![p] = "done"]
    /\ UNCHANGED <<webVars, timer, webhook_url, botReady, mode, calls>>
    /\ UNCHANGED brokerVars

\* phase 5 (agent.py lines 204-227) and the return at lines 73-83; the flag
\* is set from the sink's return value (line 221) and stays False when the
\* call raises (lines 226-227)
SendCompletionNotification(p, in) ==
    /\ pc[p] = "notify"
    /\ \E out \in CompletionOutcomes(in.sent) :
          st' = [st EXCEPT ![p].completion_message_sent = (out = "ok")]
    /\ phases' = [phases EXCEPT ![p] = Append(@, 5)]
    /\ result' = [result EXCEPT ![p] = SuccessResult]
    /\ pc' = [pc EXCEPT ![p] = "done"]
    /\ UNCHANGED <<webVars, timer, webhook_url, botReady, mode, calls>>
    /\ UNCHANGED brokerVars

\* ------------------------------------------------------------ specification
\* The steps of the system for the calls in.procs, with the collaborators'
\* answers drawn from the sets of in.
\* the steps of the pipeline and of the broker once a call has begun
Pipeline(in) ==
    \/ \E p \in in.procs : PerformAiAnalysis(p, in)
    \/ \E p \in in.procs : PerformDuplicateDetection(p, in)
    \/ \E p \in in.procs : RequestHumanClarification(p)
    \/ BotReady
    \/ \E p \in in.procs : CoStart(p)
    \/ \E p \in in.procs : CoReady(p)
    \/ \E p \in in.procs : CoSendOk(p, in)
    \/ \E p \in in.procs : CoSendFail(p)
    \/ \E p \in in.procs : CoPoll(p, in)
    \/ \E p \in in.procs : ManagerReceive(p)
    \/ \E p \in in.procs : ManagerTimeout(p)
    \/ \E v \in in.procs : ApproveButton(v, in)
    \/ \E v \in in.procs : RejectButton(v, in)
    \/ \E v \in in.procs : ModifySubmit(v, in)
    \/ \E v \in in.procs : OnTimeout(v, in)
    \/ \E p \in in.procs : ExecuteDecision(p, in)
    \/ \E p \in in.procs : SendCompletionNotification(p, in)

\* a call begins, or one that has begun goes on
Step(in) ==
    \/ \E p \in in.procs, x \in Issues, m \in Modes, e \in in.entries,
          r \in in.reports : Start(p, x, m, e, r)
    \/ Pipeline(in)

\* Two concurrent calls with well-formed reports, possibly for the same
\* issue; one answer per collaborator of phases 1, 4 and 5, which the broker
\* does not depend on.
BrokerInputs ==
    [procs |-> Procs,
     entries |-> {"triage_issue"},
     reports |-> {"ok"},
     classify |-> {"High"},
     summarize |-> {"ai"},
     duplicate |-> {"none", "match"},
     modal |-> {"urgent"},
     exec |-> {o \in ExecOutcomes : o.a /\ o.b /\ o.c /\ o.raise_at = 0},
     sent |-> {"ok"},
     timed |-> FALSE]

Next == Step(BrokerInputs)

Spec == Init /\ [][Next]_vars

\* One call, with every shape of report and every answer of the
\* collaborators of phases 1, 2, 4 and 5.
PipelineInputs ==
    [procs |-> {"p1"},
     entries |-> Entries,
     reports |-> ReportShapes,
     classify |-> ClassifyOutcomes,
     summarize |-> SummarizeOutcomes,
     duplicate |-> DuplicateOutcomes,
     modal |-> ModalSeverities,
     exec |-> ExecOutcomes,
     sent |-> SinkOutcomes,
     timed |-> FALSE]

NextPipeline == Step(PipelineInputs)

SpecPipeline == Init /\ [][NextPipeline]_vars

\* One call with time kept: the wait and the view's timeout are measured,
\* the modal is opened before it is submitted.
TimedInputs ==
    [procs |-> {"p1"},
     entries |-> {"triage_issue"},
     reports |-> {"ok"},
     classify |-> {"High"},
     summarize |-> {"ai"},
     duplicate |-> {"none"},
     modal |-> {"urgent"},
     exec |-> {o \in ExecOutcomes : o.a /\ o.b /\ o.c /\ o.raise_at = 0},
     sent |-> {"ok"},
     timed |-> TRUE]

NextTimed ==
    \/ Step(TimedInputs)
    \/ \E v \in TimedInputs.procs : ModifyButton(v, TimedInputs)
    \/ Tick(TimedInputs)

SpecTimed == Init /\ [][NextTimed]_vars

\* ------------------------------------------------- src/webhook_server.py
\* the action of an issues event
Actions == {"opened", "closed"}

\* payload["issue"]: a report of one of the shapes, or not a dict at all
IssueShapes == ReportShapes \cup {"not_dict"}

\* a request body: JSON with an action and an issue, or not JSON
NotJson == [json |-> FALSE, action |-> "none", issue |-> "none"]

Bodies == {NotJson} \cup [json : {TRUE}, action : Actions, issue : IssueShapes]

\* X-GitHub-Event
Events == {"issues", "push"}

\* "sha256=" + hmac.new(key, body, sha256).hexdigest(): two digests are
\* equal exactly when key and body are
Hmac(key, body) == [kind |-> "mac", key |-> key, body |-> body]

\* request.headers.get('X-Hub-Signature-256', ''): the header is absent
NoHeader == [kind |-> "absent", key |-> "none", body |-> NotJson]

\* a header with a character outside ASCII
NonAscii == [kind |-> "non_ascii", key |-> "none", body |-> NotJson]

\* the signature headers a request with this body may carry
SignatureHeaders(body) ==
    {NoHeader, NonAscii} \cup {Hmac(k, b) : k \in SigningKeys, b \in {body, NotJson}}

\* hmac.compare_digest on two str: TypeError when one is not ASCII
CompareDigest(a, b) ==
    IF b.kind = "non_ascii" THEN "raise" ELSE Bool(a = b)

\* mutant: a request without the header is let through
VerifyAcceptsMissingHeader(secret, body, header) ==
    IF secret = "" THEN "True"
    ELSE IF header.kind = "absent" THEN "True"
    ELSE IF header.kind = "non_ascii" THEN "raise"
    ELSE IF header = [kind |-> "mac", key |-> secret, body |-> body]
         THEN "True" ELSE "False"

\* verify_webhook_signature (lines 28-42)
VerifyWebhookSignature(secret, body, header) ==
    IF secret = NoSecret THEN "True"
    ELSE IF header.kind = "absent" THEN "False"
    ELSE CompareDigest(Hmac(secret, body), header)

\* what handle_webhook answers without running the triage
Answer(status, key) == [run |-> FALSE, status |-> status, key |-> key]

\* mutant: the action of the event is not looked at
OutcomeIgnoresAction(secret, body, header, event) ==
    LET v == IF secret = "" THEN "True"
             ELSE IF header.kind = "absent" THEN "False"
             ELSE IF header.kind = "non_ascii" THEN "raise"
             ELSE IF header = [kind |-> "mac", key |-> secret, body |-> body]
                  THEN "True" ELSE "False"
    IN  CASE v = "raise" -> [run |-> FALSE, status |-> 500, key |-> "errors"]
          [] v = "False" -> [run |-> FALSE, status |-> 401, key |-> "errors"]
          [] ~body.json -> [run |-> FALSE, status |-> 400, key |-> "errors"]
          [] event # "issues" -> [run |-> FALSE, status |-> 200, key |-> "none"]
          [] body.issue = "not_dict" -> [run |-> FALSE, status |-> 500, key |-> "errors"]
          [] OTHER -> [run |-> TRUE, status |-> 0, key |-> "none"]

\* lines 65-95 and 136-139 of handle_webhook: the checks in their order.
\* An exception (compare_digest on a header that is not ASCII, issue.get at
\* line 90 on an issue that is no dict) reaches the except clause at 136.
Outcome(secret, body, header, event) ==
    LET v == VerifyWebhookSignature(secret, body, header)
    IN  CASE v = "raise" -> Answer(500, "errors")
          [] v = "False" -> Answer(401, "errors")
          [] ~body.json -> Answer(400, "errors")
          [] event # "issues" -> Answer(200, "none")
          [] body.issue = "not_dict" -> Answer(500, "errors")
          [] body.action # "opened" -> Answer(200, "none")
          [] OTHER -> [run |-> TRUE, status |-> 0, key |-> "none"]

\* how the header stands to the HMAC of the body under the configured
\* secret
SigKind(secret, body, header) ==
    IF secret = NoSecret THEN "unchecked"
    ELSE IF header.kind = "absent" THEN "missing"
    ELSE IF header = Hmac(secret, body) THEN "match"
    ELSE "mismatch"

\* line 62, first half: a request arrives, its thread reads total_received
Receive(r) ==
    /\ req[r] = NoRequest
    /\ pc[r] = "idle"
    /\ req' = [req EXCEPT ![r].pos = "counting",
                          ![r].tmp = webhook_stats.total_received]
    /\ UNCHANGED <<webhook_secret, webhook_stats, timer, webhook_url, botReady,
                   mode, pc, st, result, calls, phases>>
    /\ UNCHANGED brokerVars

\* line 62, second half: the thread stores the value it read, plus one
CountReceived(r) ==
    /\ req[r].pos = "counting"
    /\ webhook_stats' = [webhook_stats EXCEPT !.total_received = req[r].tmp + 1]
    /\ req' = [req EXCEPT ![r].pos = "counted", ![r].tmp = 0]
    /\ UNCHANGED <<webhook_secret, timer, webhook_url, botReady,
                   mode, pc, st, result, calls, phases>>
    /\ UNCHANGED brokerVars

\* lines 65-103: the request is checked; it is answered, or its thread
\* reads the counter it is about to add to, or process_webhook is run and
\* the triage of the issue begins, in a loop that asyncio.run makes for it
\* and that is never the loop of the bot
HandleWebhook(r) ==
    /\ req[r].pos = "counted"
    /\ \E body \in Bodies, event \in Events, x \in Issues :
        \E header \in SignatureHeaders(body) :
          LET o == Outcome(webhook_secret, body, header, event)
              seen == [req[r] EXCEPT
                         !.action = body.action,
                         !.sig = SigKind(webhook_secret, body, header)]
          IN  IF o.run
              THEN /\ Enter(r, x, "cross", "process_webhook", body.issue)
                   /\ req' = [req EXCEPT ![r] = [seen EXCEPT !.pos = "triage"]]
              ELSE /\ req' = [req EXCEPT ![r] =
                                [seen EXCEPT
                                   !.pos = IF o.key = "none" THEN "answered" ELSE "tally",
                                   !.key = o.key,
                                   !.tmp = IF o.key = "none" THEN 0
                                           ELSE webhook_stats[o.key],
                                   !.status = o.status]]
                   /\ UNCHANGED <<timer, webhook_url, botReady, mode, pc, st,
                                  result, calls, phases>>
                   /\ UNCHANGED brokerVars
    /\ UNCHANGED <<webhook_secret, webhook_stats>>

\* lines 103-109: process_webhook has returned; the thread reads the counter
\* the result calls for
ProcessWebhookDone(r) ==
    /\ req[r].pos = "triage"
    /\ pc[r] = "done"
    /\ LET key == IF result[r].success THEN "issues_triaged" ELSE "errors"
       IN  req' = [req EXCEPT ![r].pos = "tally",
                              ![r].key = key,
                              ![r].tmp = webhook_stats[key],
                              ![r].status = IF result[r].success THEN 200 ELSE 500]
    /\ UNCHANGED <<webhook_secret, webhook_stats, timer, webhook_url, botReady,
                   mode, pc, st, result, calls, phases>>
    /\ UNCHANGED brokerVars

\* the second half of a += on errors or issues_triaged (lines 72, 79, 105,
\* 108, 137), and the answer
Tally(r) ==
    /\ req[r].pos = "tally"
    /\ webhook_stats' = [webhook_stats EXCEPT ![req[r].key] = req[r].tmp + 1]
    /\ req' = [req EXCEPT ![r].pos = "answered", ![r].tmp = 0]
    /\ UNCHANGED <<webhook_secret, timer, webhook_url, botReady,
                   mode, pc, st, result, calls, phases>>
    /\ UNCHANGED brokerVars

\* process_webhook called by itself with an action other than "opened"
\* (agent.py lines 239-246)
ProcessWebhookSkips(p, a) ==
    /\ req[p] = NoRequest
    /\ pc[p] = "idle"
    /\ a # "opened"
    /\ result' = [result EXCEPT ![p] = SkippedResult]
    /\ pc' = [pc EXCEPT ![p] = "done"]
    /\ req' = [req EXCEPT ![p].pos = "direct", ![p].action = a]
    /\ UNCHANGED <<webhook_secret, webhook_stats, timer, webhook_url, botReady,
                   mode, st, calls, phases>>
    /\ UNCHANGED brokerVars

\* Requests to /webhook and calls of process_webhook, with or without a
\* configured secret; one answer per collaborator.
WebhookInputs ==
    [procs |-> Procs,
     entries |-> {"process_webhook"},
     reports |-> {"ok"},
     classify |-> {"High"},
     summarize |-> {"ai"},
     duplicate |-> {"none"},
     modal |-> {"urgent"},
     exec |-> {o \in ExecOutcomes : o.a /\ o.b /\ o.c /\ o.raise_at = 0},
     sent |-> {"ok"},
     timed |-> FALSE]

InitWebhook ==
    /\ InitCommon
    /\ webhook_secret \in Secrets

NextWebhook ==
    \/ Pipeline(WebhookInputs)
    \/ \E p \in Procs, a \in Actions : ProcessWebhookSkips(p, a)
    \/ \E r \in Procs : Receive(r)
    \/ \E r \in Procs : CountReceived(r)
    \/ \E r \in Procs : HandleWebhook(r)
    \/ \E r \in Procs : ProcessWebhookDone(r)
    \/ \E r \in Procs : Tally(r)

SpecWebhook == InitWebhook /\ [][NextWebhook]_vars

\* What the schedulers guarantee for call p: the event loop of the bot runs
\* a coroutine that can go on (the awaited send ends, one way or the other;
\* the sleep of the waiting loop ends), and the pipeline goes on when the
\* call it waits for has ended.  Nothing obliges the bot to become ready, a
\* human to act or a timer to fire first.
Fairness(p, in) ==
    /\ WF_vars(CoStart(p))
    /\ WF_vars(CoReady(p))
    /\ WF_vars(CoSendOk(p, in) \/ CoSendFail(p))
    /\ WF_vars(CoPoll(p, in))
    /\ WF_vars(ManagerReceive(p))
    /\ WF_vars(PerformAiAnalysis(p, in))
    /\ WF_vars(PerformDuplicateDetection(p, in))
    /\ WF_vars(RequestHumanClarification(p))
    /\ WF_vars(ExecuteDecision(p, in))
    /\ WF_vars(SendCompletionNotification(p, in))

\* one call under fair scheduling
FairPipeline == SpecPipeline /\ \A p \in PipelineInputs.procs : Fairness(p, PipelineInputs)

\* ------------------------------------------------------------------ claims
Has(seq, e) == \E i \in 1..Len(seq) : seq[i] = e

IsPrefix(a, b) == Len(a) <= Len(b) /\ \A i \in 1..Len(a) : a[i] = b[i]

\* the pipeline holds an approval that a handler wrote
HumanApproved(p) ==
    /\ st[p].human_decision.decision = "approve"
    /\ st[p].human_decision.slot # "none"

\* C1: the approve branch (any RecordStore call or knowledge-base
\* registration) runs only on an approval that a handler delivered, and a
\* call whose channel is not configured fails instead of going on to phase 4.
C1_NoAutomaticApproval ==
    \A p \in Procs :
        /\ calls[p] # <<>> => HumanApproved(p)
        /\ (~webhook_url /\ Has(phases[p], 3)) =>
               (pc[p] = "done" /\ ~result[p].success)

\* C2: when the publish of the decision request raised, the pipeline is
\* still in phase 3 or has returned success=false with an error; phases 4 and
\* 5 were not entered and it made no RecordStore call.
C2_PublishFailureIsFatal ==
    \A p \in Procs :
        co[p] = "raised_send" =>
            /\ pc[p] \in {"awaiting", "done"}
            /\ pc[p] = "done" =>
                  (result[p].returned /\ ~result[p].success /\ result[p].error # "none")
            /\ ~Has(phases[p], 4) /\ ~Has(phases[p], 5)
            /\ calls[p] = <<>>

\* C2 witness: a publish raised and the call has returned its failed result
C2_Witness ==
    \E p \in Procs :
        co[p] = "raised_send" /\ pc[p] = "done" /\ result[p].returned /\ ~result[p].success

\* C3: awaitDecision returns the first record written into the pending
\* decision's slot: a coroutine that has returned, and whose slot a handler
\* wrote, returned exactly that record.
C3_ReturnsFirstRecord ==
    \A p \in Procs :
        (co[p] = "returned" /\ future[p].decision # "none") => coret[p] = future[p]

\* C4: a second registration for an issue that is already pending does not
\* replace the first pipeline's slot: while a coroutine waits, the entry
\* under its issue, if any, is the Future it created.
C4_EntryNotReplaced ==
    \A p \in Procs :
        co[p] = "waiting" => pending_decisions[IssueOf(p)] \in {p, NoEntry}

\* C5: a record written by one handler invocation is returned to at most one
\* coroutine, and so is held as the decision of at most one pipeline.
C5_OneConsumerPerResolve ==
    \A p, q \in Procs :
        p # q =>
            /\ (co[p] = "returned" /\ co[q] = "returned" /\ coret[p].slot # "none")
                  => coret[p].slot # coret[q].slot
            /\ st[p].human_decision.slot # "none"
                  => st[p].human_decision.slot # st[q].human_decision.slot

\* C5 witness: two calls for one issue have both ended their wait, and one of
\* them executed the record a handler wrote
C5_Witness ==
    \E p, q \in Procs :
        /\ p # q /\ IssueOf(p) = IssueOf(q)
        /\ co[p] = "returned" /\ co[q] = "returned"
        /\ coret[p].slot # "none"
        /\ Has(phases[p], 4) /\ Has(phases[q], 4)

\* C6: while a coroutine waits, the registry holds an entry for its issue,
\* whatever another call for the same issue does.
C6_WaitKeepsItsEntry ==
    \A p \in Procs :
        co[p] = "waiting" => pending_decisions[IssueOf(p)] # NoEntry

\* C7: when no handler has written any record, a pipeline whose request was
\* published and whose wait is over holds a timeout record, and the
\* registry does not hold its entry.
C7_TimeoutRecord ==
    (\A q \in Procs : future[q] = NoRecord) =>
        \A p \in Procs :
            (co[p] \in {"waiting", "returned"} /\ pc[p] # "awaiting") =>
                /\ st[p].human_decision.decision = "timeout"
                /\ pending_decisions[IssueOf(p)] # p

\* some coroutine for issue x has not ended
CallInFlight(x) == \E p \in Procs : IssueOf(p) = x /\ co[p] \in InFlight

\* C8: the registry holds no entry for an issue without a coroutine in
\* flight, and the step in which a coroutine ends, on any path, leaves no
\* entry under its issue.
C8_RegistryCleared ==
    /\ [](\A x \in Issues : ~CallInFlight(x) => pending_decisions[x] = NoEntry)
    /\ [][\A p \in Procs :
             (co[p] \in InFlight /\ co'[p] \in Ended) =>
                 pending_decisions'[IssueOf(p)] = NoEntry]_vars

\* C8 witness: a coroutine returned a record a handler wrote and its issue
\* has no entry
C8_Witness ==
    \E p \in Procs :
        /\ co[p] = "returned" /\ coret[p].slot # "none"
        /\ pending_decisions[IssueOf(p)] = NoEntry

\* C9: a handler that runs for an issue without a registry entry raises
\* nothing, creates no entry and changes no Future.
C9_ResolveWithoutEntryIsNoOp ==
    [][(hres' # hres \/ future' # future) =>
          (pending_decisions[hres'.issue] = NoEntry =>
              /\ ~hres'.raised
              /\ pending_decisions' = pending_decisions
              /\ future' = future)]_vars

\* C9 witness: a handler has run although no Future was ever written, while
\* the other issue is pending
C9_Witness ==
    /\ hres.issue \in Issues
    /\ pending_decisions[hres.issue] = NoEntry
    /\ \A p \in Procs : future[p] = NoRecord
    /\ \E x \in Issues : pending_decisions[x] # NoEntry

\* C10: the phases of a call run in the order 1..5, each at most once; a
\* RecordStore call is made only in phase 4 with the decision stored, and the
\* notification is sent only after phase 4.
C10_PhaseOrder ==
    \A p \in Procs :
        /\ IsPrefix(phases[p], <<1, 2, 3, 4, 5>>)
        /\ calls[p] # <<>> =>
              (Has(phases[p], 4) /\ st[p].human_decision.decision # "none")
        /\ st[p].completion_message_sent => phases[p] = <<1, 2, 3, 4, 5>>
        /\ (pc[p] = "done" /\ result[p].success) => phases[p] = <<1, 2, 3, 4, 5>>

\* C10 witness: all five phases ran and RecordStore was called
C10_Witness ==
    \E p \in Procs :
        phases[p] = <<1, 2, 3, 4, 5>> /\ calls[p] # <<>> /\ st[p].completion_message_sent

\* the decision the pipeline holds, and the keys of its action map
Decision(p) == st[p].human_decision.decision

Keys(p) == DOMAIN st[p].actions_executed

\* phase 4 has run
Executed(p) == Has(phases[p], 4)

\* C11: a call whose decision is reject makes no RecordStore call and no
\* knowledge-base registration; once phase 4 has run its action map is
\* exactly {rejected: True}, and the result it returns reports success.
C11_RejectTakesNoAction ==
    \A p \in Procs :
        Decision(p) = "reject" =>
            /\ calls[p] = <<>>
            /\ Executed(p) => st[p].actions_executed = [k \in {"rejected"} |-> "True"]
            /\ pc[p] = "done" => (result[p].returned /\ result[p].success)

\* C11 witness: a handler-written reject was executed and the call returned
C11_Witness ==
    \E p \in Procs :
        /\ Decision(p) = "reject" /\ st[p].human_decision.slot = p
        /\ Executed(p) /\ pc[p] = "done" /\ result[p].success

\* the request of p was published and no approve, reject or modify was
\* written into its Future
NoHumanActed(p) == p \in views /\ future[p].decision \in {"none", "timeout"}

\* C12: a call whose request was published and that no human answered ends
\* with success, the action map {timed_out: True} and no RecordStore call,
\* on the bot's loop and from another loop alike.
C12_TimeoutTakesNoAction ==
    \A p \in Procs :
        (NoHumanActed(p) /\ pc[p] = "done") =>
            /\ result[p].returned /\ result[p].success
            /\ st[p].actions_executed = [k \in {"timed_out"} |-> "True"]
            /\ calls[p] = <<>>

\* phase 4 ran the approve branch for a new issue / for a duplicate, and no
\* call of the branch raised
ApprovedNew(p) ==
    Decision(p) = "approve" /\ ~st[p].is_duplicate /\ Executed(p) /\ "error" \notin Keys(p)

ApprovedDuplicate(p) ==
    Decision(p) = "approve" /\ st[p].is_duplicate /\ Executed(p) /\ "error" \notin Keys(p)

\* C13: after phase 4 of an approved new (non-duplicate) issue the keys of
\* the action map are exactly severity_label_added, summary_posted and
\* added_to_knowledge_base, whichever of the three calls returned failure.
C13_NewIssueActionKeys ==
    \A p \in Procs :
        ApprovedNew(p) =>
            Keys(p) = {"severity_label_added", "summary_posted", "added_to_knowledge_base"}

\* C13 witness: an approved new issue whose label call and registration
\* both failed has been executed
C13_Witness ==
    \E p \in Procs :
        /\ ApprovedNew(p) /\ Len(calls[p]) = 3
        /\ ~calls[p][1].ok /\ calls[p][2].ok /\ ~calls[p][3].ok

\* phase 2 found a match and drafted the duplicate comment
MatchFound(p) ==
    /\ Has(phases[p], 2)
    /\ st[p].similarity_score # NoneInt
    /\ st[p].proposed_comment = "draft"

\* C14: an issue for which phase 2 found a match is a duplicate, and after
\* phase 4 of an approved duplicate the keys of the action map are exactly
\* comment_posted, duplicate_label_added and issue_closed, each holding the
\* success flag of its own call.
C14_DuplicateActionKeys ==
    \A p \in Procs :
        /\ MatchFound(p) => st[p].is_duplicate
        /\ ApprovedDuplicate(p) =>
              /\ Keys(p) = {"comment_posted", "duplicate_label_added", "issue_closed"}
              /\ Len(calls[p]) = 3
              /\ st[p].actions_executed["comment_posted"] = Bool(calls[p][1].ok)
              /\ st[p].actions_executed["duplicate_label_added"] = Bool(calls[p][2].ok)
              /\ st[p].actions_executed["issue_closed"] = Bool(calls[p][3].ok)

\* C14 witness: an approved duplicate was executed with the comment posted,
\* the label refused and the issue closed
C14_Witness ==
    \E p \in Procs :
        /\ MatchFound(p) /\ ApprovedDuplicate(p)
        /\ st[p].actions_executed["comment_posted"] = "True"
        /\ st[p].actions_executed["duplicate_label_added"] = "False"
        /\ st[p].actions_executed["issue_closed"] = "True"

\* the operations of a sequence of calls, in order
Ops(seq) == [i \in 1..Len(seq) |-> seq[i].op]

\* C15: the approve branch of a duplicate calls post_comment, then add_label
\* with "duplicate", then close_issue with reason "duplicate", in that
\* order; when no call raised all three were made, also after one that
\* returned failure.
C15_DuplicateCallOrder ==
    \A p \in Procs :
        (Decision(p) = "approve" /\ st[p].is_duplicate /\ Executed(p)) =>
            /\ IsPrefix(Ops(calls[p]), <<"post_comment", "add_label", "close_issue">>)
            /\ \A i \in 2..Len(calls[p]) : calls[p][i].arg = "duplicate"
            /\ "error" \notin Keys(p) => Len(calls[p]) = 3

\* C15 witness: the comment and the label both failed and the issue was
\* still closed
C15_Witness ==
    \E p \in Procs :
        /\ Decision(p) = "approve" /\ st[p].is_duplicate /\ Executed(p)
        /\ Len(calls[p]) = 3
        /\ ~calls[p][1].ok /\ ~calls[p][2].ok /\ calls[p][3].ok
        /\ "error" \notin Keys(p)

\* C16: after phase 4 of an approved new issue each of the three steps is
\* recorded under its own key with its own outcome: False for a step that
\* failed, the registration with the duplicate index included.
C16_NewIssueFlagsAreOutcomes ==
    \A p \in Procs :
        (ApprovedNew(p) /\ Len(calls[p]) = 3) =>
            /\ st[p].actions_executed["severity_label_added"] = Bool(calls[p][1].ok)
            /\ st[p].actions_executed["summary_posted"] = Bool(calls[p][2].ok)
            /\ st[p].actions_executed["added_to_knowledge_base"] = Bool(calls[p][3].ok)

\* C17: an exception raised by a call of the approve branch is recorded
\* under the error key and goes no further: the pipeline moves on to the
\* notification, and when it has returned, phase 5 has run and the result
\* reports success; no call that reached phase 4 returns a failure.
C17_BranchErrorIsRecorded ==
    \A p \in Procs :
        /\ "error" \in Keys(p) =>
              /\ Decision(p) = "approve"
              /\ pc[p] \in {"notify", "done"}
              /\ pc[p] = "done" =>
                    (Has(phases[p], 5) /\ result[p].returned /\ result[p].success)
        /\ Executed(p) => ~(result[p].returned /\ ~result[p].success)

\* C17 witness: the second call of the branch for a new issue raised after
\* the label was recorded, and the call returned success
C17_Witness ==
    \E p \in Procs :
        /\ Keys(p) = {"severity_label_added", "error"}
        /\ Len(calls[p]) = 2
        /\ pc[p] = "done" /\ result[p].success /\ Has(phases[p], 5)

\* C18: once phase 1 has run, severity is one of the five levels and the
\* summary is set; a summary built by the except clause (the provider
\* raised) comes with severity Medium; and the call goes on: it returns
\* only from phase 3 or later.
C18_AnalysisFallback ==
    \A p \in Procs :
        /\ Has(phases[p], 1) =>
              /\ st[p].severity \in Severities
              /\ st[p].ai_summary \in {"ai", "fallback"}
              /\ st[p].ai_summary = "fallback" => st[p].severity = "Medium"
        /\ (pc[p] = "done" /\ Has(phases[p], 1)) => Has(phases[p], 3)

\* C18 witness: phase 3 has started on the fallback analysis
C18_Witness ==
    \E p \in Procs :
        /\ Has(phases[p], 3)
        /\ st[p].severity = "Medium" /\ st[p].ai_summary = "fallback"

\* C19: once phase 2 has run, a match whose comment was drafted has the
\* duplicate flag, the score and the target set; when the search or the
\* drafting raised, no comment is drafted and the state is "not a
\* duplicate"; and the call goes on to phase 3 before it returns.
C19_DuplicateFallback ==
    \A p \in Procs :
        /\ Has(phases[p], 2) =>
              /\ st[p].proposed_comment = "draft" =>
                    /\ st[p].is_duplicate
                    /\ st[p].similarity_score = DuplicateMatch.score
                    /\ st[p].duplicate_issue_id = DuplicateMatch.id
              /\ st[p].proposed_comment # "draft" => ~st[p].is_duplicate
        /\ (pc[p] = "done" /\ Has(phases[p], 2)) => Has(phases[p], 3)

\* C19 witness: phase 3 has started after the drafting of the comment raised
\* on a match that had been found
C19_Witness ==
    \E p \in Procs :
        /\ Has(phases[p], 3)
        /\ st[p].duplicate_issue_id = DuplicateMatch.id
        /\ st[p].proposed_comment = "None"
        /\ ~st[p].is_duplicate

NewIssueKeys == {"severity_label_added", "summary_posted", "added_to_knowledge_base"}

DuplicateKeys == {"comment_posted", "duplicate_label_added", "issue_closed"}

\* C21: the action map of a duplicate triage state holds none of the keys
\* of the branch for a new issue, and the action map of a non-duplicate
\* state none of the keys of the duplicate branch, whatever the payload of
\* the decision.
C21_BranchKeysMatchFlag ==
    \A p \in Procs :
        /\ st[p].is_duplicate => Keys(p) \cap NewIssueKeys = {}
        /\ ~st[p].is_duplicate => Keys(p) \cap DuplicateKeys = {}

\* C21 witness: a duplicate approved through the modal, with a severity
\* override in the payload, has been executed
C21_Witness ==
    \E p \in Procs :
        /\ st[p].is_duplicate /\ Executed(p)
        /\ st[p].human_decision.data.modified = "True"
        /\ st[p].human_decision.data.severity \in ModalSeverities
        /\ Keys(p) \cap DuplicateKeys # {}

\* how many times phase n was entered
Times(p, n) == Cardinality({i \in 1..Len(phases[p]) : phases[p][i] = n})

\* C22: a call that entered phase 4 goes on to the notification whatever
\* phase 4 did; when it has returned, phase 5 was entered exactly once and
\* the result reports success, whether or not the notification was sent.
C22_NotificationAlwaysAttempted ==
    \A p \in Procs :
        Executed(p) =>
            /\ pc[p] \in {"notify", "done"}
            /\ pc[p] = "notify" => Times(p, 5) = 0
            /\ pc[p] = "done" =>
                  (Times(p, 5) = 1 /\ result[p].returned /\ result[p].success)

\* C22 witness: with the sink configured, the notification of a rejected
\* plan was not sent and the call returned success
C22_Witness ==
    \E p \in Procs :
        /\ webhook_url /\ Keys(p) = {"rejected"}
        /\ pc[p] = "done" /\ Times(p, 5) = 1
        /\ ~st[p].completion_message_sent /\ result[p].success

\* C23: a call of triage that has ended returned a dict with a success
\* flag and the issue number and raised nothing to its caller, and
\* success=False comes only out of phase 3.
C23_StructuredResult ==
    \A p \in Procs :
        pc[p] = "done" =>
            /\ result[p].returned /\ ~result[p].raised
            /\ result[p].issue_number
            /\ ~result[p].success => (Has(phases[p], 3) /\ ~Has(phases[p], 4))

\* a handler has written a record into the Future of p while p waits on it
Resolved(p) ==
    /\ co[p] = "waiting"
    /\ pending_decisions[IssueOf(p)] = p
    /\ future[p].decision # "none"

\* C24: once a handler has resolved the pending decision of a waiting call,
\* the call eventually holds exactly that record as its decision and has
\* executed it, from whichever loop the pipeline was started.
C24_ResolveIsDelivered ==
    \A p \in Procs :
        Resolved(p) ~> (st[p].human_decision = future[p] /\ Executed(p))

\* C25: every started awaitDecision coroutine eventually ends, by returning
\* a record or by raising; it does not stay waiting for the bot to become
\* ready or for a decision.
C25_AwaitEnds ==
    \A p \in Procs : (co[p] \in InFlight) ~> (co[p] \in Ended)

\* C26: while a call waits on issue X, a call for another issue Y can go
\* on (its send can complete and register, its wait can poll, its view's
\* handlers can run), and a handler that runs for Y leaves the entry of X
\* and the Future stored there as they are.
C26_OtherIssuesNotBlocked ==
    /\ [](\A p, q \in Procs :
             (co[p] = "waiting" /\ IssueOf(q) # IssueOf(p)) =>
                 /\ co[q] = "sending" => ENABLED CoSendOk(q, BrokerInputs)
                 /\ co[q] = "waiting" => ENABLED CoPoll(q, BrokerInputs)
                 /\ q \in views => ENABLED (ApproveButton(q, BrokerInputs) \/ RejectButton(q, BrokerInputs)))
    /\ [][\A x \in Issues :
             ((hres' # hres \/ future' # future) /\ hres'.issue # x) =>
                 /\ pending_decisions'[x] = pending_decisions[x]
                 /\ pending_decisions[x] # NoEntry =>
                       future'[pending_decisions[x]] = future[pending_decisions[x]]]_vars

\* C26 witness: a call for one issue still waits, unresolved, while a call
\* for the other issue was resolved by a handler and
\* has completed
C26_Witness ==
    \E p, q \in Procs :
        /\ IssueOf(p) # IssueOf(q)
        /\ co[p] = "waiting" /\ pending_decisions[IssueOf(p)] = p
        /\ future[p] = NoRecord
        /\ coret[q].slot = q /\ st[q].human_decision = coret[q]
        /\ pc[q] = "done" /\ result[q].success

\* the kinds a decision record may have
RecordKinds == {"approve", "reject", "timeout"}

WellKinded(rec) ==
    /\ rec.decision \in RecordKinds
    /\ rec.decision \in {"reject", "timeout"} => rec.data = EmptyData

\* C30: every record a handler has written into a Future, every record the
\* wait returned and every record stored in a TriageState has one kind out
\* of approve, reject and timeout, and those of kind reject or timeout have
\* an empty data dict.
C30_RecordKinds ==
    \A p \in Procs :
        /\ future[p] # NoRecord => WellKinded(future[p])
        /\ co[p] = "returned" => WellKinded(coret[p])
        /\ st[p].human_decision # NoRecord => WellKinded(st[p].human_decision)

\* C30 witness: the pipeline holds an approve record written from the modal
\* with its payload, and another call holds a handler's reject
C30_Witness ==
    \E p, q \in Procs :
        /\ st[p].human_decision.decision = "approve"
        /\ st[p].human_decision.data.modified = "True"
        /\ st[p].human_decision.slot = p
        /\ st[q].human_decision.decision = "reject"
        /\ st[q].human_decision.slot = q

\* C28: the pending decision is registered before the request is published:
\* while channel.send is in progress, and while the published view can be
\* acted on during the wait, the registry holds an entry for the issue.
C28_RegisteredBeforePublished ==
    \A p \in Procs :
        (co[p] = "sending" \/ (co[p] = "waiting" /\ p \in views)) =>
            pending_decisions[IssueOf(p)] # NoEntry

\* C29: a failure inside the wait is fatal: a waiting coroutine that finds
\* no entry for its issue in the registry ends by raising, and returns no
\* decision record.
C29_WaitFailureIsFatal ==
    [][\A p \in Procs :
          (co[p] = "waiting" /\ pending_decisions[IssueOf(p)] = NoEntry
             /\ co'[p] # co[p]) => co'[p] \in Raised]_vars

\* no interaction with the view of p has arrived
Untouched(p) == p \in views /\ ~timer[p].touched

\* C27: the wait window is strictly longer than the view's timeout, and a
\* wait on a view that no human touched never ends by its own timeout
\* check: when it has returned, it returned the record that on_timeout
\* wrote into its slot, and its own check has not come true before
\* on_timeout ran.
C27_UiTimeoutComesFirst ==
    /\ WAIT_WINDOW > UI_TIMEOUT
    /\ \A p \in Procs :
          Untouched(p) =>
             /\ co[p] = "returned" =>
                   coret[p] = Record("timeout", EmptyData, p)
             /\ (co[p] = "waiting" /\ Expired(timer[p].wait)) =>
                   (timer[p].fired /\ future[p].decision = "timeout")

\* C27 witness: nobody touched the view, its timeout passed, on_timeout ran
\* and the wait returned the record it wrote
C27_Witness ==
    \E p \in Procs :
        /\ Untouched(p)
        /\ timer[p].fired
        /\ timer[p].wait >= UI_TIMEOUT
        /\ co[p] = "returned"
        /\ coret[p] = Record("timeout", EmptyData, p)

\* the value to act on: the replacement when the payload carries one, else
\* the value the pipeline proposed
Override(v, proposed) == IF v \in {"absent", "None"} THEN proposed ELSE v

\* the argument the rule gives to a call of phase 4 made for state s
RuleArg(s, op) ==
    LET d == s.human_decision.data
        sev == Override(d.severity, s.severity)
    IN  IF s.is_duplicate
        THEN IF op = "post_comment" THEN Override(d.comment, s.proposed_comment)
             ELSE "duplicate"
        ELSE CASE op = "add_label" -> sev
               [] op = "post_comment" -> <<sev, Override(d.summary, s.ai_summary)>>
               [] OTHER -> "issue"

\* C31: on an approve decision every call of phase 4 carries the human's
\* replacement value when the payload has one and the value the pipeline
\* proposed otherwise: the severity label, the summary posted, the
\* duplicate comment posted.
C31_OverrideElseProposed ==
    \A p \in Procs :
        (Executed(p) /\ Decision(p) = "approve") =>
            \A i \in 1..Len(calls[p]) :
                calls[p][i].arg = RuleArg(st[p], calls[p][i].op)

\* C32: every severity label added in the approve branch for a new issue
\* is one of the five severities, a replacement typed into the modal
\* included.
C32_SeverityLabelIsClosed ==
    \A p \in Procs :
        ~st[p].is_duplicate =>
            \A i \in 1..Len(calls[p]) :
                calls[p][i].op = "add_label" => calls[p][i].arg \in Severities

\* the operations of the RecordStore and of the knowledge base
StoreOps == {"add_label", "post_comment", "close_issue", "add_issue"}

\* how many times call p invoked op
Invoked(p, op) == Cardinality({i \in 1..Len(calls[p]) : calls[p][i].op = op})

\* C33: within one call every phase is entered at most once and every
\* RecordStore operation and the knowledge-base registration is invoked at
\* most once, whatever failed; and a request whose publication has ended,
\* by success or by failure, is never published again.
C33_NoRetry ==
    /\ [](\A p \in Procs :
             /\ \A op \in StoreOps : Invoked(p, op) <= 1
             /\ \A n \in 1..5 : Times(p, n) <= 1)
    /\ [][\A p \in Procs :
             (co[p] \in {"waiting"} \cup Ended) =>
                 co'[p] \notin {"scheduled", "wait_ready", "sending"}]_vars

\* C33 witness: a call has returned although its label could not be added:
\* the three operations of the branch were each invoked once
C33_Witness ==
    \E p \in Procs :
        /\ pc[p] = "done" /\ p \in views
        /\ Len(calls[p]) = 3
        /\ calls[p][1].op = "add_label" /\ ~calls[p][1].ok
        /\ Invoked(p, "add_label") = 1

\* this step is a handler of the view of v
HandlerOf(v) == (hres' # hres \/ future' # future) /\ hres'.view = v

\* the wait of v has returned a timeout record
TimedOut(v) == co[v] = "returned" /\ coret[v].decision = "timeout"

\* C34: once the wait of a request has returned a timeout record, a handler
\* of that request's view changes nothing: no Future gets a record, the
\* registry stays as it is, without an entry made by that request, and the
\* calls made and the results returned stay as they are.
C34_LateActionChangesNothing ==
    [][\A v \in Procs :
          (TimedOut(v) /\ HandlerOf(v)) =>
              /\ future' = future
              /\ pending_decisions' = pending_decisions
              /\ pending_decisions[IssueOf(v)] # v
              /\ calls' = calls
              /\ result' = result]_vars

\* the values classify_severity returns in the runs of the model
ProviderSeverities == ClassifyOutcomes \ {"raise"}

\* C35: after phase 1 the severity and the summary are either both the
\* values the provider returned or both the fallbacks (Medium and the text
\* built from the title): a returned severity never stands next to the
\* fallback summary, nor the returned summary next to a severity the
\* provider did not return.
C35_AnalysisPairIsWhole ==
    \A p \in Procs :
        Has(phases[p], 1) =>
            \/ st[p].severity \in ProviderSeverities /\ st[p].ai_summary = "ai"
            \/ st[p].severity = "Medium" /\ st[p].ai_summary = "fallback"

\* C35 witness: phase 1 has just ended on the two fallbacks
C35_Witness ==
    \E p \in Procs :
        /\ pc[p] = "duplicate" /\ phases[p] = <<1>>
        /\ st[p].severity = "Medium" /\ st[p].ai_summary = "fallback"

\* no part of a triage exists for p
NoTriage(p) ==
    /\ st[p] = NoState
    /\ phases[p] = <<>>
    /\ calls[p] = <<>>
    /\ co[p] = "none"
    /\ p \notin views
    /\ \A x \in Issues : pending_decisions[x] # p

\* C36: an event whose action is not "opened" starts no triage: no state is
\* created, nothing is published or registered; process_webhook called with
\* it returns success with skipped set, and handle_webhook answers 200
\* when it has accepted the request.
C36_OnlyOpenedStartsTriage ==
    \A p \in Procs :
        (req[p] # NoRequest /\ req[p].action # "opened") =>
            /\ NoTriage(p)
            /\ req[p].pos = "direct" => result[p] = SkippedResult
            /\ req[p].pos # "direct" => result[p] = NoResult
            /\ (req[p].pos = "answered" /\ req[p].action # "none"
                  /\ req[p].key = "none") => req[p].status = 200

\* C36 witness: process_webhook has skipped a closed event, and
\* handle_webhook has answered another one with 200
C36_Witness ==
    \E p, q \in Procs :
        /\ req[p].pos = "direct" /\ req[p].action = "closed"
        /\ result[p] = SkippedResult
        /\ req[q].pos = "answered" /\ req[q].action = "closed"
        /\ req[q].status = 200 /\ req[q].sig \in {"match", "unchecked"}

\* the requests whose thread has added to total_received
Counted == {r \in Procs : req[r].pos \in {"counted", "triage", "tally", "answered"}}

\* C37: with a secret configured, a request whose signature header is
\* missing or does not match starts no triage and is answered with 401;
\* total_received counts every request once; and issues_triaged plus errors
\* is never more than total_received.
C37_SignatureAndCounters ==
    /\ \A r \in Procs :
          req[r].sig \in {"missing", "mismatch"} =>
              /\ NoTriage(r)
              /\ req[r].pos = "answered" => req[r].status = 401
    /\ webhook_stats.total_received = Cardinality(Counted)
    /\ webhook_stats.issues_triaged + webhook_stats.errors
          <= webhook_stats.total_received

=============================================================================
